---- MODULE Spec2Model ----
(***************************************************************************)
(* Multipart upload tracking of the blobstore package: NewUpload, PutPart, *)
(* UploadInfo, FinishUpload, RemoveUpload and RemoveExpiredUploads.        *)
(*                                                                         *)
(* Every call is split at its accesses to the upload collection (uploadc)  *)
(* and to the backing blob store, which are the only shared state; the     *)
(* computation between two accesses is local to the caller and belongs to  *)
(* the step of the access that precedes it.                                *)
(***************************************************************************)
EXTENDS Integers, Sequences, FiniteSets, TLC

----------------------------------------------------------------------------
\* Bounds of the model.

\* Number of uploads NewUpload may create.
MaxUploads == 2
\* Highest valid part index the callers use.
MaxPart == 1
\* Number of calls started in one behaviour of the concurrent specification.
MaxOps == 4
\* Number of calls started in one behaviour of the sequential specification.
SeqMaxOps == 5
\* Last value of the clock.
MaxTime == 1

----------------------------------------------------------------------------
\* Program constants.  An int64 size s is the pair <<s \div 2^16, s % 2^16>>.

maxParts == 400
minPartSize == <<80, 0>>
maxPartSize == <<65535, 65535>>

W16 == 2 ^ 16

SizeLT(a, b) == a[1] < b[1] \/ (a[1] = b[1] /\ a[2] < b[2])
SizeLE(a, b) == a = b \/ SizeLT(a, b)

\* uint32(size): the low 32 bits.
uint32(s) == <<s[1] % W16, s[2]>>

----------------------------------------------------------------------------
\* Hashing.  A blob body is a sequence of bytes; the accumulator is an
\* integer; the digest is printed as three hexadecimal digits.

NewHash == 7

RECURSIVE HashWrite(_, _)
HashWrite(h, body) ==
    IF body = <<>> THEN h
    ELSE HashWrite((h * 31 + Head(body) + 1) % 997, Tail(body))

HexSum(h) == <<h \div 256, (h \div 16) % 16, h % 16>>

HashOf(body) == HexSum(HashWrite(NewHash, body))

----------------------------------------------------------------------------
\* Values.

Procs == {"p1", "p2"}
SeqProcs == {"p1"}

Ids == 1 .. MaxUploads
PartIdx == 0 .. MaxPart

Bodies == {<<1>>, <<2>>}
Hashes == {HashOf(b) : b \in Bodies}

\* Expiry times the callers pass: the clock passes each but the last.
Expiries == 0 .. MaxTime

\* Sizes the callers pass: 0, 1024, minPartSize, maxPartSize, 2^32 + 1024.
Sizes == {<<0, 0>>, <<0, 1024>>, minPartSize, maxPartSize, <<W16, 1024>>}
\* Part indices the callers pass.
PartArgs == {-1} \cup PartIdx \cup {maxParts}

\* The empty Go string: an absent hash field unmarshals to it.
EmptyStr == <<>>
\* The hash field absent from the stored document (bson omitempty).
NoHash == <<-1>>

\* A nil *PartInfo (null array element).
NilPart == [nil |-> TRUE]
PartInfo(hash, size, complete) ==
    [hash |-> hash, size |-> size, complete |-> complete]

\* No document with that _id in the collection.
NoDoc == [nil |-> TRUE]
uploadDoc(id, hash, expires, parts) ==
    [id |-> id, hash |-> hash, expires |-> expires, parts |-> parts]

\* No blob with that name in the backing store.
NoBlob == <<>>

uploadPartName(uploadId, part) == <<uploadId, part>>
Names == {uploadPartName(id, k) : id \in Ids, k \in PartIdx}

\* Hash of a document as the Go struct holds it.
GoHash(doc) == IF doc.hash = NoHash THEN EmptyStr ELSE doc.hash

\* All sequences over S of length at most n.
RECURSIVE SeqsUpTo(_, _)
SeqsUpTo(S, n) ==
    IF n = 0 THEN {<<>>}
    ELSE LET shorter == SeqsUpTo(S, n - 1)
         IN  shorter \cup {Append(s, x) : s \in {t \in shorter : Len(t) = n - 1}, x \in S}

----------------------------------------------------------------------------
\* State.

VARIABLES
    uploadc,    \* the upload collection: _id -> document or NoDoc
    blobs,      \* the backing blob store: name -> body or NoBlob
    now,        \* time.Now()
    nextId,     \* number of ids NewUpload has handed out
    nops,       \* number of calls started
    pc,         \* where each caller is in its call ("idle": between calls)
    call,       \* the arguments and locals of each caller's call
    ret,        \* the call that has just returned, with its results, or NoRet
    committed,  \* history: ids whose document had its hash field set
    released    \* history: ids of the uploads RemoveUpload found and returned nil for

vars == <<uploadc, blobs, now, nextId, nops, pc, call, ret, committed, released>>

\* No history kept.
NoPre == [nil |-> TRUE]

\* No call has just returned.
NoRet == [nil |-> TRUE]

\* The locals of a caller that is not in a call.
NoCall ==
    [op |-> "none", id |-> 0, part |-> 0, body |-> <<>>,
     size |-> <<0, 0>>, hash |-> EmptyStr, parts |-> <<>>, expires |-> 0,
     udoc |-> NoDoc, scan |-> <<>>, i |-> 0, h |-> 0, opens |-> 0,
     removeErr |-> FALSE, err |-> "ok", rhash |-> EmptyStr, idx |-> <<>>,
     at |-> 0, pre |-> NoPre, fails |-> {}]

Init ==
    /\ uploadc = [id \in Ids |-> NoDoc]
    /\ blobs = [n \in Names |-> NoBlob]
    /\ now = 0
    /\ nextId = 0
    /\ nops = 0
    /\ pc = [p \in Procs |-> "idle"]
    /\ call = [p \in Procs |-> NoCall]
    /\ ret = NoRet
    /\ committed = {}
    /\ released = {}

\* The callers of the concurrent specification pass valid arguments only.
ConcCfg ==
    [limit |-> MaxOps, partArgs |-> PartIdx, sizes |-> {<<0, 1024>>, minPartSize},
     history |-> FALSE]
\* The caller of the sequential specification passes invalid ones too.
SeqCfg ==
    [limit |-> SeqMaxOps, partArgs |-> PartArgs, sizes |-> Sizes, history |-> TRUE]

\* A caller starts a call: it is between calls and the call budget allows it.
CanStart(p, k) == ret = NoRet /\ pc[p] = "idle" /\ nops < k.limit

\* A caller is at label l of its call.
At(p, l) == ret = NoRet /\ pc[p] = l

\* The locals at the start of a call.  pre is history: the collection and
\* the blob store as the call found them, kept where k.history says so.
Start(op, k) ==
    [NoCall EXCEPT !.op = op,
                   !.pre = IF k.history THEN [uploadc |-> uploadc, blobs |-> blobs] ELSE NoPre]

\* The call goes on at label l with locals c.
To(l, c) == [pc |-> l, call |-> c, ret |-> NoRet]

\* The call returns err; ret shows it with its results.
Return(c, err) ==
    [pc |-> "idle", call |-> NoCall,
     ret |-> [c EXCEPT !.err = err, !.scan = <<>>, !.i = 0, !.h = 0, !.removeErr = FALSE]]

\* The caller's next state.
Go(p, t) ==
    /\ pc' = [pc EXCEPT ![p] = t.pc]
    /\ call' = [call EXCEPT ![p] = t.call]
    /\ ret' = t.ret

\* The return has been seen.
Ack ==
    /\ ret # NoRet
    /\ ret' = NoRet
    /\ UNCHANGED <<uploadc, blobs, now, nextId, nops, pc, call, committed, released>>

----------------------------------------------------------------------------
\* The collection's operations.

getUpload(uploadId) == IF uploadId \in Ids THEN uploadc[uploadId] ELSE NoDoc

\* SetPart of a $set that replaces the array: the other elements are null.
SetPartAlone(parts, part, v) ==
    [j \in 1 .. (IF part + 1 > Len(parts) THEN part + 1 ELSE Len(parts)) |->
        IF j = part + 1 THEN v ELSE NilPart]

\* $set parts.<part>: the array grows to part+1 elements, padded with null.
SetPart(parts, part, v) ==
    [j \in 1 .. (IF part + 1 > Len(parts) THEN part + 1 ELSE Len(parts)) |->
        IF j = part + 1 THEN v
        ELSE IF j <= Len(parts) THEN parts[j] ELSE NilPart]

\* parts.<part> does not exist or is null.
PartAbsent(parts, part) == part + 1 > Len(parts) \/ parts[part + 1] = NilPart

----------------------------------------------------------------------------
\* NewUpload

\* NewObjectId that returns the same id at every call.
NewObjectIdSame(n) == 1

\* bson.NewObjectId after n ids have been handed out: an id not handed out
\* before.
NewObjectId(n) == n + 1

NewUpload(p, k) ==
    /\ CanStart(p, k)
    /\ nextId < MaxUploads
    /\ \E expires \in Expiries :
        LET uploadId == NewObjectId(nextId)
        IN  /\ uploadc' = [uploadc EXCEPT ![uploadId] = uploadDoc(uploadId, NoHash, expires, <<>>)]
            /\ Go(p, Return([Start("NewUpload", k) EXCEPT !.id = uploadId, !.expires = expires], "ok"))
    /\ nextId' = nextId + 1
    /\ nops' = nops + 1
    /\ UNCHANGED <<blobs, now, committed, released>>

----------------------------------------------------------------------------
\* checkPartSizes without the check of the part being uploaded.
checkPartSizesLoopOnly(parts, part, size) ==
    IF \E i \in 0 .. Len(parts) - 1 :
          /\ i # part
          /\ parts[i + 1] # NilPart
          /\ SizeLT(parts[i + 1].size, minPartSize)
    THEN "toosmall"
    ELSE "ok"

\* checkPartSizes without its loop over the recorded parts.
checkPartSizesNoLoop(parts, part, size) ==
    IF part >= 0 /\ part < Len(parts) - 1 /\ SizeLT(size, minPartSize)
    THEN "toosmall"
    ELSE "ok"

----------------------------------------------------------------------------
\* checkPartSizes; part = -1 when no part is being uploaded.

checkPartSizes(parts, part, size) ==
    IF part >= 0 /\ part < Len(parts) - 1 /\ SizeLT(size, minPartSize)
    THEN "toosmall"
    ELSE IF \E i \in 0 .. Len(parts) - 1 :
                /\ i # part
                /\ parts[i + 1] # NilPart
                /\ SizeLT(parts[i + 1].size, minPartSize)
    THEN "toosmall"
    ELSE "ok"

----------------------------------------------------------------------------
\* PutPart

\* PutPartArgs without the upper bound of the size.
PutPartArgsNoMax(part, size) ==
    IF part < 0 THEN "badpart"
    ELSE IF part >= maxParts THEN "badpart"
    ELSE IF SizeLE(size, <<0, 0>>) THEN "badsize"
    ELSE "ok"

\* PutPartArgs with the bounds of the size included in the range.
PutPartArgsInclusive(part, size) ==
    IF part < 0 THEN "badpart"
    ELSE IF part >= maxParts THEN "badpart"
    ELSE IF SizeLT(size, <<0, 0>>) THEN "badsize"
    ELSE IF SizeLT(maxPartSize, size) THEN "badsize"
    ELSE "ok"

\* The argument checks that precede the lookup.
PutPartArgs(part, size) ==
    IF part < 0 THEN "badpart"
    ELSE IF part >= maxParts THEN "badpart"
    ELSE IF SizeLE(size, <<0, 0>>) THEN "badsize"
    ELSE IF SizeLE(maxPartSize, size) THEN "badsize"
    ELSE "ok"

\* PutPartCheck without the comparison of the hashes.
PutPartCheckNoHash(udoc, part, size, hash) ==
    IF checkPartSizes(udoc.parts, part, size) # "ok" THEN "toosmall"
    ELSE IF part < Len(udoc.parts) /\ udoc.parts[part + 1] # NilPart
    THEN IF udoc.parts[part + 1].complete THEN "ok" ELSE "put"
    ELSE IF GoHash(udoc) # EmptyStr THEN "finished"
    ELSE "init"

\* PutPartCheck of a PutPart that uploads a new part without making its
\* part record first.
PutPartCheckSkipsInit(udoc, part, size, hash) ==
    IF checkPartSizes(udoc.parts, part, size) # "ok" THEN "toosmall"
    ELSE IF part < Len(udoc.parts) /\ udoc.parts[part + 1] # NilPart
    THEN IF udoc.parts[part + 1].hash # hash THEN "hashmismatch"
         ELSE IF udoc.parts[part + 1].complete THEN "ok"
         ELSE "put"
    ELSE IF GoHash(udoc) # EmptyStr THEN "finished"
    ELSE "put"

\* What PutPart decides from the document it read: an error, "ok" (the part
\* is already complete), "init" (make the part record) or "put" (upload).
PutPartCheck(udoc, part, size, hash) ==
    IF checkPartSizes(udoc.parts, part, size) # "ok" THEN "toosmall"
    ELSE IF part < Len(udoc.parts) /\ udoc.parts[part + 1] # NilPart
    THEN IF udoc.parts[part + 1].hash # hash THEN "hashmismatch"
         ELSE IF udoc.parts[part + 1].complete THEN "ok"
         ELSE "put"
    ELSE IF GoHash(udoc) # EmptyStr THEN "finished"
    ELSE "init"

\* PutPartDecide with the lookup before the argument checks.
PutPartDecideLookupFirst(udoc, part, size, hash) ==
    IF udoc = NoDoc THEN "notfound"
    ELSE IF PutPartArgs(part, size) # "ok" THEN PutPartArgs(part, size)
    ELSE PutPartCheck(udoc, part, size, hash)

\* What the whole first step of PutPart decides.
PutPartDecide(udoc, part, size, hash) ==
    IF PutPartArgs(part, size) # "ok" THEN PutPartArgs(part, size)
    ELSE IF udoc = NoDoc THEN "notfound"
    ELSE PutPartCheck(udoc, part, size, hash)

\* Argument checks, getUpload, checkPartSizes and the look at the part record.
PutPartBegin(p, k) ==
    /\ CanStart(p, k)
    /\ \E uploadId \in Ids, part \in k.partArgs, body \in Bodies, size \in k.sizes, hash \in Hashes :
        LET udoc == getUpload(uploadId)
            d == PutPartDecide(udoc, part, size, hash)
            c == [Start("PutPart", k) EXCEPT !.id = uploadId, !.part = part, !.body = body,
                                             !.size = size, !.hash = hash,
                                             !.udoc = IF PutPartArgs(part, size) = "ok" THEN udoc ELSE NoDoc]
        IN  Go(p, IF d \in {"init", "put"} THEN To(d, c) ELSE Return(c, d))
    /\ nops' = nops + 1
    /\ UNCHANGED <<uploadc, blobs, now, nextId, committed, released>>

\* initializePartMatches without the condition on the hash field.
initializePartMatchesFinished(doc, part) ==
    /\ doc # NoDoc
    /\ PartAbsent(doc.parts, part)

\* initializePartMatches without the condition on the part's element.
initializePartMatchesAny(doc, part) ==
    /\ doc # NoDoc
    /\ doc.hash = NoHash

\* The query of initializePart: the document exists, has no hash field and
\* no (or a null) element at the part's index.
initializePartMatches(doc, part) ==
    /\ doc # NoDoc
    /\ doc.hash = NoHash
    /\ PartAbsent(doc.parts, part)

\* initializePartLost of a PutPart that goes on to upload the part.
initializePartLostGoesOn(c) == To("put", c)

\* The conditional update matched no document: initializePart returns the
\* error of a concurrent upload of the same part, and so does PutPart.
initializePartLost(c) == Return(c, "conflict")

\* initializePart: one conditional update.
PutPartInit(p) ==
    /\ At(p, "init")
    /\ LET c == call[p]
           doc == uploadc[c.id]
       IN  IF initializePartMatches(doc, c.part)
           THEN /\ uploadc' = [uploadc EXCEPT ![c.id].parts =
                                  SetPart(doc.parts, c.part, PartInfo(c.hash, c.size, FALSE))]
                /\ Go(p, To("put", c))
           ELSE /\ uploadc' = uploadc
                /\ Go(p, initializePartLost(c))
    /\ UNCHANGED <<blobs, now, nextId, nops, committed, released>>

\* Store.Put: the content must have the given hash.
PutAccepts(body, size, hash) == HashOf(body) = hash

\* s.Put of the part's content under the part's name.
PutPartPut(p) ==
    /\ At(p, "put")
    /\ LET c == call[p]
       IN  IF PutAccepts(c.body, c.size, c.hash)
           THEN /\ blobs' = [blobs EXCEPT ![uploadPartName(c.id, c.part)] = c.body]
                /\ Go(p, To("complete", c))
           ELSE /\ blobs' = blobs
                /\ Go(p, Return(c, "put"))
    /\ UNCHANGED <<uploadc, now, nextId, nops, committed, released>>

\* The backing store fails the write.
PutPartPutFails(p) ==
    /\ At(p, "put")
    /\ Go(p, Return(call[p], "put"))
    /\ UNCHANGED <<uploadc, blobs, now, nextId, nops, committed, released>>

\* completePart of a write that leaves the part incomplete.
completePartPending(hash, size) == PartInfo(hash, size, FALSE)

\* The part record of the final write: the call's hash and size, complete.
completePart(hash, size) == PartInfo(hash, size, TRUE)

\* completeNotFound of a PutPart that ignores the error of its final write.
completeNotFoundIgnored(c) == Return(c, "ok")

\* The final write found no document: PutPart returns the error.
completeNotFound(c) == Return(c, "markcomplete")

\* UpdateId $set parts.<part> to the complete part record, unconditionally.
PutPartComplete(p) ==
    /\ At(p, "complete")
    /\ LET c == call[p]
           doc == uploadc[c.id]
       IN  IF doc # NoDoc
           THEN /\ uploadc' = [uploadc EXCEPT ![c.id].parts =
                                  SetPart(doc.parts, c.part, completePart(c.hash, c.size))]
                /\ Go(p, Return(c, "ok"))
           ELSE /\ uploadc' = uploadc
                /\ Go(p, completeNotFound(c))
    /\ UNCHANGED <<blobs, now, nextId, nops, committed, released>>

----------------------------------------------------------------------------
\* UploadInfo

UploadInfo(p, k) ==
    /\ CanStart(p, k)
    /\ \E uploadId \in Ids :
        LET udoc == getUpload(uploadId)
            c == [Start("UploadInfo", k) EXCEPT !.id = uploadId, !.udoc = udoc]
        IN  Go(p, IF udoc = NoDoc THEN Return(c, "notfound")
                  ELSE Return([c EXCEPT !.rhash = GoHash(udoc)], "ok"))
    /\ nops' = nops + 1
    /\ UNCHANGED <<uploadc, blobs, now, nextId, committed, released>>

----------------------------------------------------------------------------
\* FinishUpload

\* The loop over the expected parts: the first index that is not uploaded
\* or whose hash differs decides the error.
RECURSIVE FinishPartsCheck(_, _, _)
FinishPartsCheck(parts, uparts, i) ==
    IF i >= Len(parts) THEN "ok"
    ELSE IF uparts[i + 1] = NilPart \/ ~uparts[i + 1].complete THEN "notuploaded"
    ELSE IF parts[i + 1] # uparts[i + 1].hash THEN "hashmismatch"
    ELSE FinishPartsCheck(parts, uparts, i + 1)

\* FinishCheck that masks the cause of getUpload's error.
FinishCheckMasked(udoc, parts) ==
    IF udoc = NoDoc THEN "masked"
    ELSE IF Len(parts) # Len(udoc.parts) THEN "count"
    ELSE IF FinishPartsCheck(parts, udoc.parts, 0) # "ok"
    THEN FinishPartsCheck(parts, udoc.parts, 0)
    ELSE checkPartSizes(udoc.parts, -1, <<0, 0>>)

\* The checks of FinishUpload on the document it read.
FinishCheck(udoc, parts) ==
    IF udoc = NoDoc THEN "notfound"
    ELSE IF Len(parts) # Len(udoc.parts) THEN "count"
    ELSE IF FinishPartsCheck(parts, udoc.parts, 0) # "ok"
    THEN FinishPartsCheck(parts, udoc.parts, 0)
    ELSE checkPartSizes(udoc.parts, -1, <<0, 0>>)

\* The MultipartIndex FinishUpload builds.
MultipartIndex(uparts) == [j \in 1 .. Len(uparts) |-> uint32(uparts[j].size)]

\* setUploadHashEntry without the branch for one part.
setUploadHashEntryNoShortcut(udoc) ==
    IF GoHash(udoc) # EmptyStr THEN "ok"
    ELSE IF Len(udoc.parts) = 0 THEN "sethash"
    ELSE "copy"

\* Where setUploadHash goes from the document read: "ok" (the hash is
\* already there), "sethash" (the hash is known) or "copy" (read the blobs).
setUploadHashEntry(udoc) ==
    IF GoHash(udoc) # EmptyStr THEN "ok"
    ELSE IF Len(udoc.parts) = 1 THEN "sethash"
    ELSE IF Len(udoc.parts) = 0 THEN "sethash"
    ELSE "copy"

\* The hash setUploadHash knows without reading a blob.
setUploadHashKnown(udoc) ==
    IF GoHash(udoc) # EmptyStr THEN GoHash(udoc)
    ELSE IF Len(udoc.parts) = 1 THEN udoc.parts[1].hash
    ELSE HexSum(NewHash)

\* getUpload, the checks, and the start of setUploadHash.
FinishBegin(p, k) ==
    /\ CanStart(p, k)
    /\ \E uploadId \in Ids, parts \in SeqsUpTo(Hashes, MaxPart + 1) :
        LET udoc == getUpload(uploadId)
            d == FinishCheck(udoc, parts)
            c == [Start("FinishUpload", k) EXCEPT !.id = uploadId, !.parts = parts, !.udoc = udoc]
        IN  Go(p, IF d # "ok" THEN Return(c, d)
                  ELSE IF setUploadHashEntry(udoc) = "ok"
                  THEN Return([c EXCEPT !.rhash = setUploadHashKnown(udoc),
                                        !.idx = MultipartIndex(udoc.parts)], "ok")
                  ELSE To(setUploadHashEntry(udoc),
                          [c EXCEPT !.rhash = setUploadHashKnown(udoc), !.h = NewHash, !.i = 0]))
    /\ nops' = nops + 1
    /\ UNCHANGED <<uploadc, blobs, now, nextId, committed, released>>

\* CopyIndex with the first two blobs read in the other order.
CopyIndexSwapped(i) == IF i = 0 THEN 1 ELSE IF i = 1 THEN 0 ELSE i

\* The index of the blob the i-th iteration of setUploadHash's loop reads.
CopyIndex(i) == i

\* copyBlob of one part into the hash; a missing blob ends the call.
FinishCopy(p) ==
    /\ At(p, "copy")
    /\ LET c == call[p]
           blob == blobs[uploadPartName(c.id, CopyIndex(c.i))]
           h == HashWrite(c.h, blob)
           d == [c EXCEPT !.h = h, !.i = c.i + 1, !.opens = c.opens + 1, !.rhash = HexSum(h)]
       IN  Go(p, IF blob = NoBlob THEN Return([c EXCEPT !.opens = c.opens + 1], "expired")
                 ELSE IF d.i = Len(c.udoc.parts) THEN To("sethash", d)
                 ELSE To("copy", d))
    /\ UNCHANGED <<uploadc, blobs, now, nextId, nops, committed, released>>

\* The backing store fails the read.
FinishCopyFails(p) ==
    /\ At(p, "copy")
    /\ Go(p, Return([call[p] EXCEPT !.opens = call[p].opens + 1], "copy"))
    /\ UNCHANGED <<uploadc, blobs, now, nextId, nops, committed, released>>

\* setHashResult of a write that deletes the document.
setHashResultGone(doc, hash) == NoDoc

\* The document after $set hash.
setHashResult(doc, hash) == [doc EXCEPT !.hash = hash]

\* UpdateId $set hash, and the index FinishUpload returns.
FinishSetHash(p) ==
    /\ At(p, "sethash")
    /\ LET c == call[p]
       IN  IF uploadc[c.id] # NoDoc
           THEN /\ uploadc' = [uploadc EXCEPT ![c.id] = setHashResult(uploadc[c.id], c.rhash)]
                /\ committed' = committed \cup {c.id}
                /\ Go(p, Return([c EXCEPT !.idx = MultipartIndex(c.udoc.parts)], "ok"))
           ELSE /\ uploadc' = uploadc
                /\ committed' = committed
                /\ Go(p, Return([c EXCEPT !.rhash = EmptyStr], "expired"))
    /\ UNCHANGED <<blobs, now, nextId, nops, released>>

----------------------------------------------------------------------------
\* removeUpload, RemoveUpload, RemoveExpiredUploads

\* Where removeUpload starts for the document it is given.
removeUploadEntry(udoc) == IF GoHash(udoc) = EmptyStr THEN "rmcond" ELSE "rmid"

\* removeUpload returns err to its caller: RemoveUpload returns it;
\* RemoveExpiredUploads returns an error and otherwise takes the next
\* document of the iterator.
removeUploadReturn(c, err) ==
    IF c.op = "RemoveUpload" \/ err # "ok" \/ c.scan = <<>>
    THEN Return(c, err)
    ELSE To(removeUploadEntry(Head(c.scan)),
            [c EXCEPT !.udoc = Head(c.scan), !.scan = Tail(c.scan),
                      !.i = 0, !.removeErr = FALSE])

\* RemoveUpload that returns the not-found error of getUpload.
RemoveUploadNotFoundFails(c) == Return(c, "notfound")

\* RemoveUpload when getUpload finds no document: it returns nil.
RemoveUploadNotFound(c) == Return(c, "ok")

\* RemoveUpload: getUpload, then removeUpload.
RemoveBegin(p, k) ==
    /\ CanStart(p, k)
    /\ \E uploadId \in Ids :
        LET udoc == getUpload(uploadId)
            c == [Start("RemoveUpload", k) EXCEPT !.id = uploadId, !.udoc = udoc]
        IN  Go(p, IF udoc = NoDoc THEN RemoveUploadNotFound(c) ELSE To(removeUploadEntry(udoc), c))
    /\ nops' = nops + 1
    /\ UNCHANGED <<uploadc, blobs, now, nextId, committed, released>>

\* Expired with the documents that expire now included.
RECURSIVE ExpiredInclusive(_)
ExpiredInclusive(id) ==
    IF id > MaxUploads THEN <<>>
    ELSE IF uploadc[id] # NoDoc /\ uploadc[id].expires <= now
    THEN <<uploadc[id]>> \o ExpiredInclusive(id + 1)
    ELSE ExpiredInclusive(id + 1)

\* The documents the query of RemoveExpiredUploads finds.
RECURSIVE Expired(_)
Expired(id) ==
    IF id > MaxUploads THEN <<>>
    ELSE IF uploadc[id] # NoDoc /\ uploadc[id].expires < now
    THEN <<uploadc[id]>> \o Expired(id + 1)
    ELSE Expired(id + 1)

\* RemoveExpiredUploads: the query, then removeUpload of each document.
SweepBegin(p, k) ==
    /\ CanStart(p, k)
    /\ Go(p, removeUploadReturn(
                [Start("RemoveExpiredUploads", k) EXCEPT !.scan = Expired(1), !.at = now], "ok"))
    /\ nops' = nops + 1
    /\ UNCHANGED <<uploadc, blobs, now, nextId, committed, released>>

\* The history of the RemoveUpload calls that returned nil for an upload
\* they had found.
Released(c, t) ==
    IF t.ret # NoRet /\ c.op = "RemoveUpload" /\ t.ret.err = "ok"
    THEN released \cup {c.udoc.id} ELSE released

\* removeUpload after the document is gone: the loop over the parts, or the
\* return when there is no part.
removeUploadParts(c) ==
    IF Len(c.udoc.parts) = 0 THEN removeUploadReturn(c, "ok")
    ELSE To("rmparts", [c EXCEPT !.i = 0, !.removeErr = FALSE])

\* removeCondMatches without the condition on the hash field.
removeCondMatchesAny(doc) == doc # NoDoc

\* The query of the conditional Remove: the document has no hash field.
removeCondMatches(doc) == doc # NoDoc /\ doc.hash = NoHash

\* removeCondResult of a Remove that leaves the document.
removeCondKeeps(doc) == doc

\* The document the conditional Remove matched, after it.
removeCondResult(doc) == NoDoc

\* The conditional Remove: the document goes if it has no hash field.
RemoveCond(p) ==
    /\ At(p, "rmcond")
    /\ LET c == call[p]
           doc == uploadc[c.udoc.id]
           t == IF removeCondMatches(doc) THEN removeUploadParts(c) ELSE To("rmid", c)
       IN  /\ uploadc' = IF removeCondMatches(doc)
                         THEN [uploadc EXCEPT ![c.udoc.id] = removeCondResult(doc)]
                         ELSE uploadc
           /\ Go(p, t)
           /\ released' = Released(c, t)
    /\ UNCHANGED <<blobs, now, nextId, nops, committed>>

\* removeIdResult of a RemoveId that removes nothing.
removeIdKeeps(doc) == doc

\* The document after RemoveId.
removeIdResult(doc) == NoDoc

\* removeIdNext of a removeUpload that removes the parts all the same.
removeIdNextParts(c) == removeUploadParts(c)

\* After RemoveId the parts stay (removeParts is false): removeUpload
\* returns nil.
removeIdNext(c) == removeUploadReturn(c, "ok")

\* RemoveId, for a document that was finished or lost the conditional Remove.
RemoveId(p) ==
    /\ At(p, "rmid")
    /\ LET c == call[p]
           t == removeIdNext(c)
       IN  /\ uploadc' = [uploadc EXCEPT ![c.udoc.id] = removeIdResult(uploadc[c.udoc.id])]
           /\ Go(p, t)
           /\ released' = Released(c, t)
    /\ UNCHANGED <<blobs, now, nextId, nops, committed>>

\* removePartsNext of a loop that keeps the last error only.
removePartsNextLastOnly(c, failed) ==
    LET d == [c EXCEPT !.i = c.i + 1, !.removeErr = failed]
    IN  IF d.i < Len(c.udoc.parts) THEN To("rmparts", d)
        ELSE removeUploadReturn(d, IF d.removeErr THEN "removefailed" ELSE "ok")

\* removePartsNext of a loop that ends after its first blob.
removePartsNextOnce(c, failed) ==
    LET d == [c EXCEPT !.i = c.i + 1, !.removeErr = c.removeErr \/ failed]
    IN  removeUploadReturn(d, IF d.removeErr THEN "removefailed" ELSE "ok")

\* After the i-th blob: the next one, or the return of removeUpload.
removePartsNext(c, failed) ==
    LET d == [c EXCEPT !.i = c.i + 1, !.removeErr = c.removeErr \/ failed]
    IN  IF d.i < Len(c.udoc.parts) THEN To("rmparts", d)
        ELSE removeUploadReturn(d, IF d.removeErr THEN "removefailed" ELSE "ok")

\* s.Remove of one part blob; a blob that is not there is no error.
RemoveParts(p) ==
    /\ At(p, "rmparts")
    /\ LET c == call[p]
           t == removePartsNext(c, FALSE)
       IN  /\ blobs' = [blobs EXCEPT ![uploadPartName(c.udoc.id, c.i)] = NoBlob]
           /\ Go(p, t)
           /\ released' = Released(c, t)
    /\ UNCHANGED <<uploadc, now, nextId, nops, committed>>

\* The backing store fails the removal; the loop goes on.  fails is history:
\* the indexes of the parts whose removal failed.
RemovePartsFails(p) ==
    /\ At(p, "rmparts")
    /\ LET c == [call[p] EXCEPT !.fails = @ \cup {call[p].i}]
           t == removePartsNext(c, TRUE)
       IN  /\ Go(p, t)
           /\ released' = Released(c, t)
    /\ UNCHANGED <<uploadc, blobs, now, nextId, nops, committed>>

----------------------------------------------------------------------------
\* Time passes.
Tick ==
    /\ ret = NoRet
    /\ now < MaxTime
    /\ now' = now + 1
    /\ UNCHANGED <<uploadc, blobs, nextId, nops, pc, call, ret, committed, released>>

----------------------------------------------------------------------------
\* Specifications.

\* Concurrent callers; the backing store does not fail.
Next ==
    \/ \E p \in Procs : NewUpload(p, ConcCfg)
    \/ \E p \in Procs : PutPartBegin(p, ConcCfg)
    \/ \E p \in Procs : PutPartInit(p)
    \/ \E p \in Procs : PutPartPut(p)
    \/ \E p \in Procs : PutPartComplete(p)
    \/ \E p \in Procs : UploadInfo(p, ConcCfg)
    \/ \E p \in Procs : FinishBegin(p, ConcCfg)
    \/ \E p \in Procs : FinishCopy(p)
    \/ \E p \in Procs : FinishSetHash(p)
    \/ \E p \in Procs : RemoveBegin(p, ConcCfg)
    \/ \E p \in Procs : SweepBegin(p, ConcCfg)
    \/ \E p \in Procs : RemoveCond(p)
    \/ \E p \in Procs : RemoveId(p)
    \/ \E p \in Procs : RemoveParts(p)
    \/ Tick
    \/ Ack

Spec == Init /\ [][Next]_vars

\* One caller, each call running to its return before the next starts; the
\* backing store may fail a write, a read or a removal.
SeqNext ==
    \/ \E p \in SeqProcs : NewUpload(p, SeqCfg)
    \/ \E p \in SeqProcs : PutPartBegin(p, SeqCfg)
    \/ \E p \in SeqProcs : PutPartInit(p)
    \/ \E p \in SeqProcs : PutPartPut(p)
    \/ \E p \in SeqProcs : PutPartPutFails(p)
    \/ \E p \in SeqProcs : PutPartComplete(p)
    \/ \E p \in SeqProcs : UploadInfo(p, SeqCfg)
    \/ \E p \in SeqProcs : FinishBegin(p, SeqCfg)
    \/ \E p \in SeqProcs : FinishCopy(p)
    \/ \E p \in SeqProcs : FinishCopyFails(p)
    \/ \E p \in SeqProcs : FinishSetHash(p)
    \/ \E p \in SeqProcs : RemoveBegin(p, SeqCfg)
    \/ \E p \in SeqProcs : SweepBegin(p, SeqCfg)
    \/ \E p \in SeqProcs : RemoveCond(p)
    \/ \E p \in SeqProcs : RemoveId(p)
    \/ \E p \in SeqProcs : RemoveParts(p)
    \/ \E p \in SeqProcs : RemovePartsFails(p)
    \/ Tick
    \/ Ack

SeqSpec == Init /\ [][SeqNext]_vars

----------------------------------------------------------------------------
\* Vocabulary of the properties.

\* A call of op has just returned.
Returned(op) == ret # NoRet /\ ret.op = op

\* The document of the returned call's upload as the call found it
\* (sequential specification), or NoDoc.
PreDoc == IF ret.id \in Ids THEN ret.pre.uploadc[ret.id] ELSE NoDoc

\* Every slot holds a complete part.
AllComplete(parts) ==
    \A j \in 1 .. Len(parts) : parts[j] # NilPart /\ parts[j].complete

\* The sizes the data model allows: every part bigger than 0 and smaller
\* than maxPartSize, every part but the last at least minPartSize.
ValidSizes(parts) ==
    \A j \in 1 .. Len(parts) :
        /\ SizeLT(<<0, 0>>, parts[j].size)
        /\ SizeLT(parts[j].size, maxPartSize)
        /\ j < Len(parts) => SizeLE(minPartSize, parts[j].size)

\* The expected parts are the recorded ones: same count, same hashes.
PartsMatch(expected, parts) ==
    /\ Len(expected) = Len(parts)
    /\ \A j \in 1 .. Len(parts) : expected[j] = parts[j].hash

----------------------------------------------------------------------------
\* C1: for an upload whose record holds N complete parts with valid sizes,
\* FinishUpload succeeds if and only if the expected list has N entries and
\* each entry's hash is the recorded hash of its part; a count mismatch
\* fails with the part-count error and a hash mismatch with the
\* hash-mismatch error.  (A call the backing store failed is left out.)
C1_FinishIffMatch ==
    (/\ Returned("FinishUpload")
     /\ ret.err # "copy"
     /\ PreDoc # NoDoc
     /\ AllComplete(PreDoc.parts)
     /\ ValidSizes(PreDoc.parts))
    => /\ ret.err = "ok" <=> PartsMatch(ret.parts, PreDoc.parts)
       /\ Len(ret.parts) # Len(PreDoc.parts) => ret.err = "count"
       /\ (Len(ret.parts) = Len(PreDoc.parts) /\ ~PartsMatch(ret.parts, PreDoc.parts))
            => ret.err = "hashmismatch"

\* C2: PutPart is idempotent.  A PutPart that returned success left the
\* record {hash, size, complete} at its index, so a call that finds exactly
\* that record for its own arguments repeats a successful one: it returns
\* success and leaves the collection and the blob store as they were.
C2_PutPartIdempotent ==
    (/\ Returned("PutPart")
     /\ PreDoc # NoDoc
     /\ ret.part \in PartIdx
     /\ ret.part < Len(PreDoc.parts)
     /\ PreDoc.parts[ret.part + 1] = PartInfo(ret.hash, ret.size, TRUE)
     /\ HashOf(ret.body) = ret.hash)
    => /\ ret.err = "ok"
       /\ uploadc = ret.pre.uploadc
       /\ blobs = ret.pre.blobs

----------------------------------------------------------------------------
\* A part record with another hash than the call's is at the call's index.
OtherHashAt ==
    /\ PreDoc # NoDoc
    /\ ret.part \in PartIdx
    /\ ret.part < Len(PreDoc.parts)
    /\ PreDoc.parts[ret.part + 1] # NilPart
    /\ PreDoc.parts[ret.part + 1].hash # ret.hash

\* C3 as stated: if a part record with another hash exists at the index,
\* PutPart fails with the hash-mismatch error, writes no blob and leaves
\* the record unchanged.
C3_HashMismatchAlways ==
    (Returned("PutPart") /\ OtherHashAt)
    => /\ ret.err = "hashmismatch"
       /\ uploadc = ret.pre.uploadc
       /\ blobs = ret.pre.blobs

\* C3 as amended: if a part record with another hash exists at the index,
\* PutPart fails, writes no blob and leaves the record unchanged; the error
\* is the hash-mismatch error when the size passes the argument check and
\* the part-size check, which run first, and that check's error otherwise.
C3_HashMismatchFails ==
    (Returned("PutPart") /\ OtherHashAt)
    => /\ ret.err \in {"badsize", "toosmall", "hashmismatch"}
       /\ ret.err = "badsize" <=>
            (SizeLE(ret.size, <<0, 0>>) \/ SizeLE(maxPartSize, ret.size))
       /\ ret.err = "hashmismatch" <=>
            (/\ SizeLT(<<0, 0>>, ret.size)
             /\ SizeLT(ret.size, maxPartSize)
             /\ checkPartSizes(PreDoc.parts, ret.part, ret.size) = "ok")
       /\ uploadc = ret.pre.uploadc
       /\ blobs = ret.pre.blobs

\* C3's case: a call met a part record with another hash and got the
\* hash-mismatch error.
C3_Witness ==
    Returned("PutPart") /\ OtherHashAt /\ ret.err = "hashmismatch"

----------------------------------------------------------------------------
\* The last part is smaller than minPartSize, the others are not.
SmallLast(parts) ==
    /\ Len(parts) >= 1
    /\ ValidSizes(parts)
    /\ SizeLT(parts[Len(parts)].size, minPartSize)

\* C4: the last part is exempt from the minimum size.  Uploading the parts
\* in index order succeeds for every part when the parts before the last
\* are at least minPartSize (the call finds the parts below its index
\* complete and none at or above it), and FinishUpload with the matching
\* hashes succeeds when only the last part is smaller than minPartSize.
\* (A call the backing store failed is left out.)
C4_LastPartExempt ==
    /\ (/\ Returned("PutPart")
        /\ PreDoc # NoDoc
        /\ PreDoc.hash = NoHash
        /\ ret.part = Len(PreDoc.parts)
        /\ AllComplete(PreDoc.parts)
        /\ \A j \in 1 .. Len(PreDoc.parts) : SizeLE(minPartSize, PreDoc.parts[j].size)
        /\ SizeLT(<<0, 0>>, ret.size)
        /\ SizeLT(ret.size, maxPartSize)
        /\ HashOf(ret.body) = ret.hash
        /\ ret.err # "put")
       => ret.err = "ok"
    /\ (/\ Returned("FinishUpload")
        /\ ret.err # "copy"
        /\ PreDoc # NoDoc
        /\ AllComplete(PreDoc.parts)
        /\ SmallLast(PreDoc.parts)
        /\ PartsMatch(ret.parts, PreDoc.parts))
       => ret.err = "ok"

----------------------------------------------------------------------------
\* No part but the last is smaller than minPartSize.
NoSmallBeforeLast(parts) ==
    \A j \in 1 .. Len(parts) - 1 :
        parts[j] # NilPart /\ SizeLE(minPartSize, parts[j].size)

\* C5: FinishUpload neither commits a hash nor succeeds for a part set in
\* which a part other than the last is smaller than minPartSize, however
\* the uploads of the parts were interleaved: the part set a call is about
\* to hash or has returned an index for has no such part.
C5_FinishRechecksSizes ==
    /\ \A p \in Procs :
        pc[p] \in {"copy", "sethash"} => NoSmallBeforeLast(call[p].udoc.parts)
    /\ (Returned("FinishUpload") /\ ret.err = "ok") => NoSmallBeforeLast(ret.udoc.parts)

\* C5's case: an upload holds a complete part smaller than minPartSize
\* below its last part, and a FinishUpload with its hashes has failed.
C5_Witness ==
    /\ Returned("FinishUpload")
    /\ ret.udoc # NoDoc
    /\ AllComplete(ret.udoc.parts)
    /\ ~NoSmallBeforeLast(ret.udoc.parts)
    /\ PartsMatch(ret.parts, ret.udoc.parts)
    /\ ret.err = "toosmall"

----------------------------------------------------------------------------
\* C6: for an upload with exactly one part, of recorded hash h, a
\* successful FinishUpload returns h, has set the record's hash to h and has
\* opened no blob.
C6_SinglePartShortcut ==
    (/\ Returned("FinishUpload")
     /\ ret.err = "ok"
     /\ Len(PreDoc.parts) = 1)
    => /\ ret.rhash = PreDoc.parts[1].hash
       /\ ret.opens = 0
       /\ uploadc[ret.id] # NoDoc
       /\ uploadc[ret.id].hash = PreDoc.parts[1].hash

\* C6's case: FinishUpload succeeded on a one-part upload that had no hash.
C6_Witness ==
    /\ Returned("FinishUpload")
    /\ ret.err = "ok"
    /\ Len(PreDoc.parts) = 1
    /\ PreDoc.hash = NoHash

----------------------------------------------------------------------------
\* The bodies of the blobs of parts 0 .. n-1 of an upload, one after another.
RECURSIVE Concat(_, _)
Concat(id, n) ==
    IF n = 0 THEN <<>>
    ELSE Concat(id, n - 1) \o blobs[uploadPartName(id, n - 1)]

\* C7: a successful FinishUpload returns the recorded sizes of parts
\* 0 .. N-1 in index order, and the hash of the concatenation of the part
\* blobs in index order.
C7_IndexAndHash ==
    (Returned("FinishUpload") /\ ret.err = "ok")
    => /\ Len(ret.idx) = Len(PreDoc.parts)
       /\ \A j \in 1 .. Len(PreDoc.parts) : ret.idx[j] = PreDoc.parts[j].size
       /\ ret.rhash = HashOf(Concat(ret.id, Len(PreDoc.parts)))

\* C7's case: FinishUpload succeeded on two parts of different content.
C7_Witness ==
    /\ Returned("FinishUpload")
    /\ ret.err = "ok"
    /\ Len(PreDoc.parts) = 2
    /\ blobs[uploadPartName(ret.id, 0)] # blobs[uploadPartName(ret.id, 1)]
    /\ PreDoc.hash = NoHash

----------------------------------------------------------------------------
\* The upload was unfinished and expired when the sweep started.
SweptUnfinished(id) ==
    /\ ret.pre.uploadc[id] # NoDoc
    /\ ret.pre.uploadc[id].hash = NoHash
    /\ ret.pre.uploadc[id].expires < ret.at

\* C8: after RemoveExpiredUploads has returned without error, every
\* unfinished upload whose expiry was earlier than the sweep's time has no
\* document left, and no blob of its recorded slots is left in the store.
C8_SweepRemovesExpired ==
    (Returned("RemoveExpiredUploads") /\ ret.err = "ok")
    => \A id \in Ids :
        SweptUnfinished(id)
        => /\ uploadc[id] = NoDoc
           /\ \A i \in 0 .. Len(ret.pre.uploadc[id].parts) - 1 :
                blobs[uploadPartName(id, i)] = NoBlob

\* C8's case: a sweep returned without error that had found an expired
\* unfinished upload with a part blob in the store.
C8_Witness ==
    /\ Returned("RemoveExpiredUploads")
    /\ ret.err = "ok"
    /\ \E id \in Ids :
        /\ SweptUnfinished(id)
        /\ \E i \in 0 .. Len(ret.pre.uploadc[id].parts) - 1 :
                ret.pre.blobs[uploadPartName(id, i)] # NoBlob

----------------------------------------------------------------------------
\* C9: once a hash has been committed to an upload's document, no step of
\* RemoveUpload or RemoveExpiredUploads removes a part blob of that upload,
\* however the removal is interleaved with the FinishUpload.
C9_NoBlobRemovedAfterCommit ==
    [][\A id \in committed : \A i \in PartIdx :
          blobs[uploadPartName(id, i)] # NoBlob
          => blobs'[uploadPartName(id, i)] # NoBlob]_vars

\* C9's case: a remover that read the document without hash has lost its
\* conditional Remove to a FinishUpload, and a part blob is in the store.
C9_Witness ==
    \E p \in Procs :
        /\ pc[p] = "rmid"
        /\ call[p].udoc.hash = NoHash
        /\ call[p].udoc.id \in committed
        /\ \E i \in PartIdx : blobs[uploadPartName(call[p].udoc.id, i)] # NoBlob

----------------------------------------------------------------------------
\* C10: after NewUpload, PutPart of every part, a successful FinishUpload
\* and a successful RemoveUpload, UploadInfo returns the not-found error.
C10_InfoAfterRelease ==
    (/\ Returned("UploadInfo")
     /\ ret.id \in committed
     /\ ret.id \in released)
    => ret.err = "notfound"

\* C10's case: UploadInfo was called on an upload with a part that was
\* finished and then released.
C10_Witness ==
    /\ Returned("UploadInfo")
    /\ ret.id \in committed
    /\ ret.id \in released
    /\ blobs[uploadPartName(ret.id, 0)] # NoBlob

----------------------------------------------------------------------------
\* C11: RemoveUpload of an id that has no document returns success and
\* changes no document and no blob; and a RemoveUpload that has returned
\* has left no document of its id, so that a second RemoveUpload of the
\* same id is such a call: it succeeds and leaves the state of the first.
C11_ReleaseAbsentNoOp ==
    Returned("RemoveUpload")
    => /\ uploadc[ret.id] = NoDoc
       /\ PreDoc = NoDoc
            => /\ ret.err = "ok"
               /\ uploadc = ret.pre.uploadc
               /\ blobs = ret.pre.blobs

\* C11's case: the second RemoveUpload of an upload that was released,
\* with a blob of that upload in the store.
C11_Witness ==
    /\ Returned("RemoveUpload")
    /\ PreDoc = NoDoc
    /\ ret.id \in released
    /\ \E i \in PartIdx : blobs[uploadPartName(ret.id, i)] # NoBlob

----------------------------------------------------------------------------
\* C12: the hash of an upload's document changes at most once, from absent
\* to a value: while the document exists, a hash that is present is neither
\* cleared nor replaced by another value, however FinishUpload calls that
\* read the document at different times race with each other and with
\* PutPart.
C12_HashSetOnce ==
    [][\A id \in Ids :
          (/\ uploadc[id] # NoDoc
           /\ uploadc[id].hash # NoHash
           /\ uploadc'[id] # NoDoc)
          => uploadc'[id].hash = uploadc[id].hash]_vars

----------------------------------------------------------------------------
\* The document of id exists before and after the step.
Stays(id) == uploadc[id] # NoDoc /\ uploadc'[id] # NoDoc

\* The part record at index k of the document of id, or NilPart.
Slot(doc, k) == IF k < Len(doc.parts) THEN doc.parts[k + 1] ELSE NilPart

\* C13: once the part record at an index holds hash h, the record at that
\* index holds h in every later state of the document, under any
\* interleaving of the PutPart calls' placeholder and completion writes.
C13_PartHashStable ==
    [][\A id \in Ids : \A k \in PartIdx :
          (Stays(id) /\ Slot(uploadc[id], k) # NilPart)
          => /\ Slot(uploadc'[id], k) # NilPart
             /\ Slot(uploadc'[id], k).hash = Slot(uploadc[id], k).hash]_vars

\* C13's case: a PutPart is about to write its placeholder at an index
\* where another call has recorded a part with another hash.
C13_Witness ==
    \E p \in Procs :
        /\ pc[p] = "init"
        /\ uploadc[call[p].id] # NoDoc
        /\ Slot(uploadc[call[p].id], call[p].part) # NilPart
        /\ Slot(uploadc[call[p].id], call[p].part).hash # call[p].hash

----------------------------------------------------------------------------
\* C14: the state of a part only moves forward: while the document exists,
\* a slot that holds a part record never becomes empty again, and a part
\* that is complete never becomes incomplete, under any interleaving of
\* PutPart calls on the same slot.
C14_PartStateForward ==
    [][\A id \in Ids : \A k \in PartIdx :
          (Stays(id) /\ Slot(uploadc[id], k) # NilPart)
          => /\ Slot(uploadc'[id], k) # NilPart
             /\ Slot(uploadc[id], k).complete => Slot(uploadc'[id], k).complete]_vars

\* C14's case: a PutPart is about to write the complete part record at a
\* slot that another PutPart has completed.
C14_Witness ==
    \E p \in Procs :
        /\ pc[p] = "complete"
        /\ uploadc[call[p].id] # NoDoc
        /\ Slot(uploadc[call[p].id], call[p].part) # NilPart
        /\ Slot(uploadc[call[p].id], call[p].part).complete

----------------------------------------------------------------------------
\* C15: a FinishUpload that succeeds on an upload whose document already
\* has a hash, be it in the document it read or only when it writes,
\* returns that hash and leaves it in the document; so all successful
\* FinishUpload calls of an upload return the same hash.
C15_FinishReturnsExistingHash ==
    [][(/\ ret = NoRet
        /\ ret' # NoRet
        /\ ret'.op = "FinishUpload"
        /\ ret'.err = "ok"
        /\ uploadc[ret'.id].hash # NoHash)
       => /\ ret'.rhash = uploadc[ret'.id].hash
          /\ uploadc'[ret'.id].hash = uploadc[ret'.id].hash]_vars

----------------------------------------------------------------------------
\* C16: FinishUpload, whether it succeeds or fails, deletes no document and
\* removes no blob; after a successful FinishUpload the document is there
\* with the returned hash and the blob of every part is in the store; and
\* UploadInfo of a finished upload whose document is there returns it with
\* its hash.
C16_FinishKeepsRecordAndBlobs ==
    /\ Returned("FinishUpload")
        => /\ \A id \in Ids : ret.pre.uploadc[id] # NoDoc => uploadc[id] # NoDoc
           /\ blobs = ret.pre.blobs
    /\ (Returned("FinishUpload") /\ ret.err = "ok")
        => /\ uploadc[ret.id] # NoDoc
           /\ uploadc[ret.id].hash # NoHash
           /\ uploadc[ret.id].hash = ret.rhash
           /\ \A i \in 0 .. Len(uploadc[ret.id].parts) - 1 :
                blobs[uploadPartName(ret.id, i)] # NoBlob
    /\ (Returned("UploadInfo") /\ ret.id \in committed /\ PreDoc # NoDoc)
        => /\ ret.err = "ok"
           /\ ret.udoc = PreDoc
           /\ ret.rhash = PreDoc.hash
           /\ ret.rhash # EmptyStr

\* C16's case: UploadInfo has returned the document of a finished upload
\* of two parts.
C16_Witness ==
    /\ Returned("UploadInfo")
    /\ ret.id \in committed
    /\ ret.err = "ok"
    /\ Len(ret.udoc.parts) = 2
    /\ \A i \in 0 .. 1 : blobs[uploadPartName(ret.id, i)] # NoBlob

----------------------------------------------------------------------------
\* The arguments of the returned PutPart are out of range.
BadPart == ret.part < 0 \/ ret.part >= maxParts
BadSize == SizeLE(ret.size, <<0, 0>>) \/ SizeLE(maxPartSize, ret.size)

\* C17: PutPart with part < 0, part >= maxParts, size <= 0 or
\* size >= maxPartSize returns a validation error (for the part number
\* first) and changes no document and no blob, also when the id is unknown.
C17_PutPartRejectsBadArgs ==
    (Returned("PutPart") /\ (BadPart \/ BadSize))
    => /\ ret.err = IF BadPart THEN "badpart" ELSE "badsize"
       /\ uploadc = ret.pre.uploadc
       /\ blobs = ret.pre.blobs

\* C17's case: PutPart with a size of maxPartSize on an id without document.
C17_Witness ==
    /\ Returned("PutPart")
    /\ ~BadPart
    /\ ret.size = maxPartSize
    /\ PreDoc = NoDoc
    /\ ret.err = "badsize"

----------------------------------------------------------------------------
\* C18: PutPart with a valid part number and size, UploadInfo and
\* FinishUpload on an id that has no document return the not-found error
\* and change no document and no blob.
C18_NotFound ==
    (/\ \/ Returned("PutPart") /\ ~BadPart /\ ~BadSize
        \/ Returned("UploadInfo")
        \/ Returned("FinishUpload")
     /\ PreDoc = NoDoc)
    => /\ ret.err = "notfound"
       /\ uploadc = ret.pre.uploadc
       /\ blobs = ret.pre.blobs

\* C18's case: FinishUpload on an upload that was released, with a blob of
\* it in the store.
C18_Witness ==
    /\ Returned("FinishUpload")
    /\ PreDoc = NoDoc
    /\ ret.id \in released
    /\ ret.err = "notfound"
    /\ \E i \in PartIdx : blobs[uploadPartName(ret.id, i)] # NoBlob

----------------------------------------------------------------------------
\* The upload had a document that was expired when the sweep started.
SweptExpired(id) ==
    /\ ret.pre.uploadc[id] # NoDoc
    /\ ret.pre.uploadc[id].expires < ret.at

\* C19: a failed removal of one expired upload does not end
\* RemoveExpiredUploads: when it returns, with or without error, the removal
\* of every upload that was expired when it started has been performed, so
\* none of them has a document left.
C19_SweepGoesOn ==
    Returned("RemoveExpiredUploads")
    => \A id \in Ids : SweptExpired(id) => uploadc[id] = NoDoc

----------------------------------------------------------------------------
\* The document of the returned PutPart's upload has no hash and holds, at
\* the call's index, a part record with the call's hash.
SameHashRecorded ==
    /\ uploadc[ret.id] # NoDoc
    /\ uploadc[ret.id].hash = NoHash
    /\ Slot(uploadc[ret.id], ret.part) # NilPart
    /\ Slot(uploadc[ret.id], ret.part).hash = ret.hash

\* C20 as stated: a PutPart that loses the conditional placeholder write to
\* a PutPart with the same hash does not fail.
C20_LostRaceNoError ==
    ~(Returned("PutPart") /\ ret.err = "conflict" /\ SameHashRecorded)

\* C20 as amended: a PutPart that loses the conditional placeholder write
\* fails with the error of a concurrent upload and writes no document and
\* no blob, also when the winner's hash is its own; a PutPart that reads the
\* document when the placeholder with its hash is there is not failed for
\* it: it goes on to upload, unless the part-size check fails.
C20_LostRaceFails ==
    [][/\ \A p \in Procs :
            (/\ pc[p] = "init"
             /\ pc'[p] # "init"
             /\ uploadc[call[p].id] # NoDoc
             /\ Slot(uploadc[call[p].id], call[p].part) # NilPart)
            => /\ ret' # NoRet
               /\ ret'.err = "conflict"
               /\ uploadc' = uploadc
               /\ blobs' = blobs
       /\ (/\ nops' = nops + 1
           /\ ret' # NoRet
           /\ ret'.op = "PutPart"
           /\ uploadc[ret'.id] # NoDoc
           /\ Slot(uploadc[ret'.id], ret'.part) # NilPart
           /\ Slot(uploadc[ret'.id], ret'.part).hash = ret'.hash
           /\ ~Slot(uploadc[ret'.id], ret'.part).complete)
          => ret'.err = "toosmall"]_vars

\* C20's case: a PutPart has lost the placeholder write to a PutPart with
\* the same hash and has returned the error.
C20_Witness ==
    Returned("PutPart") /\ ret.err = "conflict" /\ SameHashRecorded /\ ret.udoc # NoDoc

----------------------------------------------------------------------------
\* A RemoveUpload or a RemoveExpiredUploads has just returned.
ReturnedRemoval == Returned("RemoveUpload") \/ Returned("RemoveExpiredUploads")

\* The upload had a document with a hash when the returned call started.
WasFinished(id) ==
    ret.pre.uploadc[id] # NoDoc /\ ret.pre.uploadc[id].hash # NoHash

----------------------------------------------------------------------------
----------------------------------------------------------------------------
\* Caller p takes the step of its placeholder write.
InitStep(p) == pc[p] = "init" /\ pc'[p] # "init"

\* C23: the placeholder write is one conditional write: it takes effect
\* only if the document has no hash and no part record at the index, and
\* then it puts the incomplete record of the call there and changes
\* nothing else; otherwise it changes nothing.  So of the PutPart calls that
\* race to initialize a slot at most one write takes effect, and none
\* overwrites a part record written by another call.
C23_PlaceholderConditional ==
    [][\A p \in Procs : InitStep(p) =>
          LET id == call[p].id
              k == call[p].part
          IN  /\ uploadc' # uploadc
                    => /\ uploadc[id] # NoDoc
                       /\ uploadc[id].hash = NoHash
                       /\ Slot(uploadc[id], k) = NilPart
                       /\ Slot(uploadc'[id], k) = PartInfo(call[p].hash, call[p].size, FALSE)
                       /\ \A other \in Ids \ {id} : uploadc'[other] = uploadc[other]
              /\ uploadc[id] # NoDoc
                    => /\ uploadc'[id] # NoDoc
                       /\ uploadc'[id].hash = uploadc[id].hash
                       /\ \A j \in PartIdx :
                            Slot(uploadc[id], j) # NilPart
                            => Slot(uploadc'[id], j) = Slot(uploadc[id], j)
              /\ blobs' = blobs]_vars

\* C23's case: two PutPart calls are both about to write the placeholder of
\* the same empty slot.
C23_Witness ==
    /\ pc["p1"] = "init"
    /\ pc["p2"] = "init"
    /\ call["p1"].id = call["p2"].id
    /\ call["p1"].part = call["p2"].part
    /\ uploadc[call["p1"].id] # NoDoc
    /\ Slot(uploadc[call["p1"].id], call["p1"].part) = NilPart

\* The document of id holds a part record with hash h at index k.
HasPartRecord(docs, id, k, h) ==
    /\ docs[id] # NoDoc
    /\ Slot(docs[id], k) # NilPart
    /\ Slot(docs[id], k).hash = h

\* C24: a PutPart reaches its blob write only through a state in which the
\* document holds a part record with the call's hash at the call's index
\* (its own placeholder, or an incomplete record it found), that record
\* stays for as long as the document does, and a part blob is written by
\* such a PutPart only: no blob is written for a slot never initialized.
C24_BlobAfterPartRecord ==
    [][/\ \A p \in Procs :
            (pc[p] # "put" /\ pc'[p] = "put")
            => HasPartRecord(uploadc', call'[p].id, call'[p].part, call'[p].hash)
       /\ \A p \in Procs :
            pc[p] \in {"put", "complete"}
            => \/ uploadc[call[p].id] = NoDoc
               \/ HasPartRecord(uploadc, call[p].id, call[p].part, call[p].hash)
       /\ \A id \in Ids : \A k \in PartIdx :
            LET name == uploadPartName(id, k)
            IN  (blobs'[name] # blobs[name] /\ blobs'[name] # NoBlob)
                => \E p \in Procs :
                      /\ pc[p] = "put"
                      /\ pc'[p] = "complete"
                      /\ call[p].id = id
                      /\ call[p].part = k
                      /\ blobs'[name] = call[p].body]_vars

\* C24's case: a PutPart has written its blob under the incomplete part
\* record with its hash.
C24_Witness ==
    \E p \in Procs :
        /\ pc[p] = "complete"
        /\ blobs[uploadPartName(call[p].id, call[p].part)] = call[p].body
        /\ uploadc[call[p].id] # NoDoc
        /\ Slot(uploadc[call[p].id], call[p].part)
              = PartInfo(call[p].hash, call[p].size, FALSE)

\* C25: when the removal of an unfinished upload returns, every part blob
\* whose removal did not fail is gone (a failure does not end the loop, and
\* a blob that was not there is no failure), every blob whose removal
\* failed is as it was, and the call returns an error exactly when some
\* removal failed.
C25_RemovalGoesOn ==
    (ReturnedRemoval /\ ret.udoc # NoDoc /\ ret.udoc.hash = NoHash)
    => /\ ret.err = "removefailed" <=> ret.fails # {}
       /\ ret.err \in {"ok", "removefailed"}
       /\ \A k \in PartIdx :
            LET name == uploadPartName(ret.udoc.id, k)
            IN  /\ (k < Len(ret.udoc.parts) /\ k \notin ret.fails) => blobs[name] = NoBlob
                /\ k \in ret.fails => blobs[name] = ret.pre.blobs[name]

\* C25's case: the removal of the first blob failed and the second blob,
\* which was there, has been removed.
C25_Witness ==
    /\ ReturnedRemoval
    /\ ret.udoc # NoDoc
    /\ ret.udoc.hash = NoHash
    /\ ret.fails = {0}
    /\ Len(ret.udoc.parts) = 2
    /\ ret.pre.blobs[uploadPartName(ret.udoc.id, 1)] # NoBlob
    /\ blobs[uploadPartName(ret.udoc.id, 1)] = NoBlob

\* The slots of the document are indexed 0 .. N-1 with N at most maxParts,
\* and each is empty or a part record whose size s has 0 < s < maxPartSize.
WellFormedParts(doc) ==
    /\ DOMAIN doc.parts = 1 .. Len(doc.parts)
    /\ Len(doc.parts) <= maxParts
    /\ \A j \in DOMAIN doc.parts :
         \/ doc.parts[j] = NilPart
         \/ /\ doc.parts[j] \in [hash : Hashes, size : Sizes, complete : BOOLEAN]
            /\ SizeLT(<<0, 0>>, doc.parts[j].size)
            /\ SizeLT(doc.parts[j].size, maxPartSize)

\* C26: in every document of the collection the slots are indexed
\* contiguously from 0, there are at most maxParts of them, each is empty or
\* holds a part record, and every recorded size s has 0 < s < maxPartSize.
C26_WellFormedRecords ==
    \A id \in Ids : uploadc[id] # NoDoc => WellFormedParts(uploadc[id])

\* C26's case: a document with an empty slot below a part record, after
\* calls with sizes and indexes outside the ranges have been refused.
C26_Witness ==
    /\ Returned("PutPart")
    /\ ret.err \in {"badpart", "badsize"}
    /\ \E id \in Ids :
         /\ uploadc[id] # NoDoc
         /\ Len(uploadc[id].parts) = 2
         /\ uploadc[id].parts[1] = NilPart
         /\ uploadc[id].parts[2] # NilPart

\* C27: once a document has its hash, a slot that is empty stays empty for
\* as long as the document exists; a PutPart that reads the finished
\* document and finds no part record at its index returns an error and
\* writes nothing; and a placeholder write that finds the hash set changes
\* nothing.
C27_SlotsFrozen ==
    [][/\ \A id \in Ids : \A k \in PartIdx :
            (/\ uploadc[id] # NoDoc
             /\ uploadc[id].hash # NoHash
             /\ Slot(uploadc[id], k) = NilPart
             /\ uploadc'[id] # NoDoc)
            => Slot(uploadc'[id], k) = NilPart
       /\ (/\ ret = NoRet
           /\ ret' # NoRet
           /\ ret'.op = "PutPart"
           /\ ret'.udoc # NoDoc
           /\ ret'.udoc.hash # NoHash
           /\ Slot(ret'.udoc, ret'.part) = NilPart)
            => /\ ret'.err \in {"finished", "toosmall"}
               /\ uploadc' = uploadc
               /\ blobs' = blobs
       /\ \A p \in Procs :
            (/\ InitStep(p)
             /\ uploadc[call[p].id] # NoDoc
             /\ uploadc[call[p].id].hash # NoHash)
            => /\ uploadc' = uploadc
               /\ blobs' = blobs
               /\ ret' # NoRet
               /\ ret'.err = "conflict"]_vars

\* C27's case: a PutPart is about to write the placeholder of an empty slot
\* of a document that has got its hash since the call read it.
C27_Witness ==
    \E p \in Procs :
        /\ pc[p] = "init"
        /\ call[p].udoc.hash = NoHash
        /\ uploadc[call[p].id] # NoDoc
        /\ uploadc[call[p].id].hash # NoHash
        /\ Slot(uploadc[call[p].id], call[p].part) = NilPart

\* Some slot of the document is empty or holds a part that is not complete.
Incomplete(doc) ==
    \E j \in 1 .. Len(doc.parts) : doc.parts[j] = NilPart \/ ~doc.parts[j].complete

\* C28: a FinishUpload that reads a document with an empty or incomplete
\* slot returns one of the errors of its checks, changes no document and no
\* blob, and leaves the document without a hash.
C28_FinishFailsOnIncomplete ==
    [][(/\ ret = NoRet
        /\ ret' # NoRet
        /\ ret'.op = "FinishUpload"
        /\ ret'.udoc # NoDoc
        /\ Incomplete(ret'.udoc))
       => /\ ret'.err \in {"count", "notuploaded", "hashmismatch"}
          /\ uploadc' = uploadc
          /\ blobs' = blobs
          /\ uploadc'[ret'.id].hash = NoHash]_vars

\* Caller p, in a RemoveExpiredUploads, takes a step.
SweepStep(p) ==
    /\ call[p].op = "RemoveExpiredUploads"
    /\ pc'[p] # pc[p] \/ call'[p] # call[p]

\* C29: no step of a RemoveExpiredUploads changes the document or a part
\* blob of an upload whose expiry time is not before the time of the sweep.
C29_SweepKeepsUnexpired ==
    [][\A p \in Procs : SweepStep(p) =>
          \A id \in Ids :
             (uploadc[id] # NoDoc /\ uploadc[id].expires >= call[p].at)
             => /\ uploadc'[id] = uploadc[id]
                /\ \A k \in PartIdx :
                     blobs'[uploadPartName(id, k)] = blobs[uploadPartName(id, k)]]_vars

\* C29's case: a sweep has removed an expired upload and has returned, and
\* an upload that expires at the time of the sweep is there with a blob.
C29_Witness ==
    /\ Returned("RemoveExpiredUploads")
    /\ ret.udoc # NoDoc
    /\ uploadc[ret.udoc.id] = NoDoc
    /\ \E id \in Ids :
         /\ uploadc[id] # NoDoc
         /\ uploadc[id].expires = ret.at
         /\ blobs[uploadPartName(id, 0)] # NoBlob

\* Caller p takes the step of its final write.
CompleteStep(p) == pc[p] = "complete" /\ pc'[p] # "complete"

\* C30: the final write of a PutPart that has written its blob: if the
\* document is there, the part record at the index becomes the call's hash
\* and size, complete, whatever it was, the blob of the part is in the
\* store, and the call returns nil; if the document is gone, nothing is
\* written and the call returns an error.
C30_FinalWrite ==
    [][\A p \in Procs : CompleteStep(p) =>
          LET c == call[p]
          IN  /\ ret' # NoRet
              /\ ret'.op = "PutPart"
              /\ blobs' = blobs
              /\ IF uploadc[c.id] # NoDoc
                 THEN /\ ret'.err = "ok"
                      /\ uploadc'[c.id] # NoDoc
                      /\ Slot(uploadc'[c.id], c.part) = PartInfo(c.hash, c.size, TRUE)
                      /\ blobs[uploadPartName(c.id, c.part)] = c.body
                      /\ HashOf(c.body) = c.hash
                 ELSE /\ ret'.err # "ok"
                      /\ uploadc' = uploadc]_vars

\* C30's case: a PutPart that found an incomplete part record with its
\* hash and another size has returned nil, and the part record holds the
\* call's size and is complete.
C30_Witness ==
    /\ Returned("PutPart")
    /\ ret.err = "ok"
    /\ Slot(ret.udoc, ret.part) # NilPart
    /\ ~Slot(ret.udoc, ret.part).complete
    /\ Slot(ret.udoc, ret.part).size # ret.size
    /\ uploadc[ret.id] # NoDoc
    /\ Slot(uploadc[ret.id], ret.part) = PartInfo(ret.hash, ret.size, TRUE)
    /\ blobs[uploadPartName(ret.id, ret.part)] = ret.body

----------------------------------------------------------------------------
\* C31: every entry of the index a successful FinishUpload returns is the
\* recorded size of its part, which is above 0 and below maxPartSize, so
\* the conversion to 32 bits has lost nothing.
C31_IndexExact ==
    (Returned("FinishUpload") /\ ret.err = "ok")
    => /\ Len(ret.idx) = Len(ret.udoc.parts)
       /\ \A j \in 1 .. Len(ret.idx) :
            /\ ret.idx[j] = ret.udoc.parts[j].size
            /\ ret.idx[j][1] < W16
            /\ SizeLT(<<0, 0>>, ret.idx[j])
            /\ SizeLT(ret.idx[j], maxPartSize)

\* C31's case: a FinishUpload has returned an index whose first size needs
\* more than 16 bits.
C31_Witness ==
    /\ Returned("FinishUpload")
    /\ ret.err = "ok"
    /\ Len(ret.idx) >= 1
    /\ ret.idx[1] = minPartSize
    /\ ret.udoc.parts[1].size = minPartSize

----------------------------------------------------------------------------
\* C32: NewUpload returns an id that no upload has had before and inserts
\* the document with that id, the given expiry time, no part and no hash;
\* it changes no other document and no blob.
C32_NewUploadFresh ==
    [][(ret = NoRet /\ ret' # NoRet /\ ret'.op = "NewUpload")
       => /\ ret'.err = "ok"
          /\ ret'.id \in Ids \ (1 .. nextId)
          /\ uploadc[ret'.id] = NoDoc
          /\ uploadc'[ret'.id] = uploadDoc(ret'.id, NoHash, ret'.expires, <<>>)
          /\ \A id \in Ids \ {ret'.id} : uploadc'[id] = uploadc[id]
          /\ blobs' = blobs]_vars

\* C32's case: a second upload has been created while the first one has a
\* part record and its blob.
C32_Witness ==
    /\ Returned("NewUpload")
    /\ ret.id = 2
    /\ uploadc[2] = uploadDoc(2, NoHash, ret.expires, <<>>)
    /\ uploadc[1] # NoDoc
    /\ Len(uploadc[1].parts) >= 1
    /\ blobs[uploadPartName(1, 0)] # NoBlob

----------------------------------------------------------------------------
\* The part being uploaded is below the highest slot of the document and
\* smaller than minPartSize.
SmallBelowLast(doc, part, size) ==
    part < Len(doc.parts) - 1 /\ SizeLT(size, minPartSize)

\* Another recorded part, not in the highest slot, is smaller than
\* minPartSize.
OtherSmallBelowLast(doc, part) ==
    \E i \in 0 .. Len(doc.parts) - 2 :
        /\ i # part
        /\ Slot(doc, i) # NilPart
        /\ SizeLT(Slot(doc, i).size, minPartSize)

\* C33: a PutPart with valid arguments that reads a document in which its
\* part is below the highest slot and smaller than minPartSize, or in which
\* another recorded part below the highest slot is smaller than
\* minPartSize, returns the size error and writes no document and no blob.
C33_PutPartTooSmall ==
    [][(/\ ret = NoRet
        /\ ret' # NoRet
        /\ ret'.op = "PutPart"
        /\ ret'.udoc # NoDoc
        /\ \/ SmallBelowLast(ret'.udoc, ret'.part, ret'.size)
           \/ OtherSmallBelowLast(ret'.udoc, ret'.part))
       => /\ ret'.err = "toosmall"
          /\ uploadc' = uploadc
          /\ blobs' = blobs]_vars

\* C33's case: a PutPart has been refused for the size of another part,
\* one that two overlapping calls left below the highest slot.
C33_Witness ==
    /\ Returned("PutPart")
    /\ ret.err = "toosmall"
    /\ ret.udoc # NoDoc
    /\ OtherSmallBelowLast(ret.udoc, ret.part)
    /\ ~SmallBelowLast(ret.udoc, ret.part, ret.size)

----------------------------------------------------------------------------
\* C34: in every document that has a hash every slot holds a complete part.
C34_FinishedAllComplete ==
    \A id \in Ids :
        (uploadc[id] # NoDoc /\ uploadc[id].hash # NoHash) => ~Incomplete(uploadc[id])

----------------------------------------------------------------------------
\* The content with hash h.
BodyOf(h) == CHOOSE b \in Bodies : HashOf(b) = h

\* The contents of the first n recorded parts, one after another.
RECURSIVE PartsContent(_, _)
PartsContent(parts, n) ==
    IF n = 0 THEN <<>>
    ELSE PartsContent(parts, n - 1) \o BodyOf(parts[n].hash)

\* C35: under any interleaving of FinishUpload and PutPart calls, a
\* successful FinishUpload returns an index with one entry for each part of
\* the document it read and the hash of the contents of exactly those
\* parts, in index order.
C35_HashCoversIndex ==
    (Returned("FinishUpload") /\ ret.err = "ok")
    => /\ Len(ret.idx) = Len(ret.udoc.parts)
       /\ ret.rhash = HashOf(PartsContent(ret.udoc.parts, Len(ret.idx)))

----------------------------------------------------------------------------
\* Caller p is in a call that works on upload id.
InFlight(p, id) ==
    /\ pc[p] # "idle"
    /\ \/ call[p].id = id
       \/ call[p].udoc # NoDoc /\ call[p].udoc.id = id
       \/ \E j \in 1 .. Len(call[p].scan) : call[p].scan[j].id = id

\* C36: once the document of an upload that never had a hash is gone and
\* no call on that upload is under way, no part blob of the upload is in
\* the store.
C36_NoOrphanedBlobs ==
    \A id \in 1 .. nextId :
        (/\ uploadc[id] = NoDoc
         /\ id \notin committed
         /\ \A p \in Procs : ~InFlight(p, id))
        => \A k \in PartIdx : blobs[uploadPartName(id, k)] = NoBlob

----------------------------------------------------------------------------
\* The returned PutPart had valid arguments and found a document.
ValidPut ==
    /\ Returned("PutPart")
    /\ PutPartArgs(ret.part, ret.size) = "ok"
    /\ PreDoc # NoDoc

\* C37: a PutPart whose blob write fails after it made the part record
\* leaves the record incomplete with its hash and size and leaves the blobs
\* alone; a later PutPart with the same hash and size that finds the
\* incomplete record goes on to the upload (only the backing store can
\* fail it), and when it returns nil the record is complete and the blob is
\* stored; a PutPart with another hash fails and changes nothing.
C37_FailedPutKeepsSlot ==
    /\ (ValidPut /\ ret.err = "put" /\ Slot(PreDoc, ret.part) = NilPart)
        => /\ uploadc[ret.id] # NoDoc
           /\ Slot(uploadc[ret.id], ret.part) = PartInfo(ret.hash, ret.size, FALSE)
           /\ blobs = ret.pre.blobs
    /\ (/\ ValidPut
        /\ Slot(PreDoc, ret.part) = PartInfo(ret.hash, ret.size, FALSE))
        => /\ ret.err \in {"ok", "put"}
           /\ ret.err = "ok"
                => /\ Slot(uploadc[ret.id], ret.part) = PartInfo(ret.hash, ret.size, TRUE)
                   /\ blobs[uploadPartName(ret.id, ret.part)] = ret.body
    /\ (/\ ValidPut
        /\ Slot(PreDoc, ret.part) # NilPart
        /\ Slot(PreDoc, ret.part).hash # ret.hash)
        => /\ ret.err \in {"hashmismatch", "toosmall"}
           /\ uploadc = ret.pre.uploadc
           /\ blobs = ret.pre.blobs

----------------------------------------------------------------------------
\* Caller p, in a call of PutPart or FinishUpload, takes a step.
PutOrFinishStep(p) ==
    /\ call[p].op \in {"PutPart", "FinishUpload"}
    /\ pc[p] # "idle"
    /\ pc'[p] # pc[p] \/ call'[p] # call[p]

\* C38: a document that has been removed does not come back; an
\* UploadInfo, PutPart or FinishUpload that returns while the document of
\* its upload is gone returns an error; and a step of a PutPart or
\* FinishUpload that read the document before it was removed changes no
\* document.
C38_NeverRecreated ==
    [][/\ \A id \in 1 .. nextId : uploadc[id] = NoDoc => uploadc'[id] = NoDoc
       /\ (/\ ret = NoRet
           /\ ret' # NoRet
           /\ ret'.op \in {"UploadInfo", "PutPart", "FinishUpload"}
           /\ ret'.id \in 1 .. nextId
           /\ uploadc[ret'.id] = NoDoc)
            => /\ ret'.err # "ok"
               /\ uploadc' = uploadc
       /\ \A p \in Procs :
            (PutOrFinishStep(p) /\ uploadc[call[p].id] = NoDoc)
            => uploadc' = uploadc]_vars

\* C38's case: a PutPart or a FinishUpload that read the document is about
\* to write to it, and the document has been removed.
C38_Witness ==
    \E p \in Procs :
        /\ pc[p] \in {"init", "complete", "sethash"}
        /\ call[p].udoc # NoDoc
        /\ uploadc[call[p].id] = NoDoc

----------------------------------------------------------------------------
\* A PutPart returns in this step.
PutPartReturns == ret = NoRet /\ ret' # NoRet /\ ret'.op = "PutPart"

\* A PutPart that returns nil leaves a complete part record with its hash
\* at its index, and the hash of a part record does not change: so no two
\* calls with different hashes return nil for one slot.
OneHashWins ==
    /\ (PutPartReturns /\ ret'.err = "ok")
        => /\ uploadc'[ret'.id] # NoDoc
           /\ Slot(uploadc'[ret'.id], ret'.part) # NilPart
           /\ Slot(uploadc'[ret'.id], ret'.part).complete
           /\ Slot(uploadc'[ret'.id], ret'.part).hash = ret'.hash
    /\ \A id \in Ids : \A k \in PartIdx :
         (uploadc[id] # NoDoc /\ Slot(uploadc[id], k) # NilPart /\ uploadc'[id] # NoDoc)
         => /\ Slot(uploadc'[id], k) # NilPart
            /\ Slot(uploadc'[id], k).hash = Slot(uploadc[id], k).hash

\* A step that writes a complete part record is the return with nil of the
\* PutPart with that hash and size.
CompleteBySuccess ==
    \A id \in Ids : \A k \in PartIdx :
        (/\ uploadc'[id] # NoDoc
         /\ Slot(uploadc'[id], k) # NilPart
         /\ Slot(uploadc'[id], k).complete
         /\ uploadc[id] = NoDoc \/ Slot(uploadc'[id], k) # Slot(uploadc[id], k))
        => /\ PutPartReturns
           /\ ret'.err = "ok"
           /\ ret'.id = id
           /\ ret'.part = k
           /\ Slot(uploadc'[id], k) = PartInfo(ret'.hash, ret'.size, TRUE)

\* Caller p returns an error from the PutPart that wrote the placeholder of
\* its slot, and the document is there.
FailsAfterPlaceholder(p) ==
    /\ PutPartReturns
    /\ ret'.err # "ok"
    /\ pc[p] \in {"put", "complete"}
    /\ pc'[p] = "idle"
    /\ Slot(call[p].udoc, call[p].part) = NilPart
    /\ uploadc'[call[p].id] # NoDoc

\* Caller p returns an error from a PutPart that has not got as far as the
\* blob write.
FailsBeforePut(p) ==
    /\ PutPartReturns
    /\ ret'.err # "ok"
    /\ pc[p] \in {"idle", "init"}
    /\ pc'[p] = "idle"

\* C39 as stated: of the PutPart calls with different hashes on one empty
\* slot at most one returns nil, a complete part record holds the hash and
\* size of a call that returned nil, and a call that fails leaves no part
\* record with its hash.
C39_FailedLeavesNoHash ==
    [][/\ OneHashWins
       /\ CompleteBySuccess
       /\ \A p \in Procs : FailsBeforePut(p) => uploadc' = uploadc
       /\ \A p \in Procs :
            FailsAfterPlaceholder(p)
            => \/ Slot(uploadc'[call[p].id], call[p].part) = NilPart
               \/ Slot(uploadc'[call[p].id], call[p].part).hash # call[p].hash]_vars

\* C39 as amended: at most one hash wins and a complete part record is that
\* of a call that returned nil; a call that fails before its blob write
\* has written nothing, and a call that fails at its blob write after it
\* made the part record leaves the record there with its hash.
C39_FailedPutLeavesHash ==
    [][/\ OneHashWins
       /\ CompleteBySuccess
       /\ \A p \in Procs : FailsBeforePut(p) => uploadc' = uploadc
       /\ \A p \in Procs :
            FailsAfterPlaceholder(p)
            => /\ uploadc' = uploadc
               /\ Slot(uploadc'[call[p].id], call[p].part) # NilPart
               /\ Slot(uploadc'[call[p].id], call[p].part).hash = call[p].hash]_vars

\* C39's case: of two PutPart calls with different hashes on one empty slot
\* the one whose placeholder was written has failed at its blob write, the
\* other is still to write its placeholder, and the record holds the hash
\* of the failed call.
C39_Witness ==
    /\ Returned("PutPart")
    /\ ret.err = "put"
    /\ Slot(ret.udoc, ret.part) = NilPart
    /\ uploadc[ret.id] # NoDoc
    /\ Slot(uploadc[ret.id], ret.part) = PartInfo(ret.hash, ret.size, FALSE)
    /\ \E q \in Procs :
         /\ pc[q] = "init"
         /\ call[q].id = ret.id
         /\ call[q].part = ret.part
         /\ call[q].hash # ret.hash

----------------------------------------------------------------------------
\* C40: the removal of an upload deletes the document before it removes
\* any blob: the document is gone during the loop over the blobs and when
\* the call returns the error of a failed blob removal; a RemoveUpload of
\* an upload without a document returns nil and changes nothing, and a
\* RemoveExpiredUploads leaves the blobs of such an upload as they are.
C40_RecordGoneFirst ==
    /\ \A p \in SeqProcs : pc[p] = "rmparts" => uploadc[call[p].udoc.id] = NoDoc
    /\ (ReturnedRemoval /\ ret.err = "removefailed")
        => /\ ret.pre.uploadc[ret.udoc.id] # NoDoc
           /\ uploadc[ret.udoc.id] = NoDoc
    /\ (Returned("RemoveUpload") /\ PreDoc = NoDoc)
        => /\ ret.err = "ok"
           /\ uploadc = ret.pre.uploadc
           /\ blobs = ret.pre.blobs
    /\ Returned("RemoveExpiredUploads")
        => \A id \in Ids :
              ret.pre.uploadc[id] = NoDoc
              => \A k \in PartIdx :
                    blobs[uploadPartName(id, k)] = ret.pre.blobs[uploadPartName(id, k)]

\* C40's case: a RemoveUpload has returned nil for an upload whose document
\* was removed by an earlier call that failed to remove its blob, and the
\* blob is still there.
C40_Witness ==
    /\ Returned("RemoveUpload")
    /\ ret.err = "ok"
    /\ ret.id \in 1 .. nextId
    /\ PreDoc = NoDoc
    /\ \E k \in PartIdx : blobs[uploadPartName(ret.id, k)] # NoBlob

====
